---------------------------- MODULE Spec2Model ----------------------------
(***************************************************************************)
(* Model of code/Orbit.ipynb: the orbit of a primordial black hole in a    *)
(* truncated dark-matter halo (enclosed mass, density, gravitational and   *)
(* dynamical-friction forces, the phase-space derivative, the initial      *)
(* conditions and the odeint driver).                                      *)
(*                                                                         *)
(* The notebook computes in IEEE binary floating point.  Numbers are       *)
(* modelled as binary floating-point values with a Precision-bit mantissa, *)
(* round-to-nearest-even, signed zero, infinities and NaN, and an          *)
(* unbounded exponent.                                                     *)
(***************************************************************************)
EXTENDS Integers, Sequences, FiniteSets, TLC

(***************************************************************************)
(* Floating-point numbers                                                  *)
(***************************************************************************)

\* Mantissa width of the modelled floats (float64 has 53).
Precision == 13

Pow2(k) == 2^k

MantLo == Pow2(Precision - 1)

MantHi == Pow2(Precision)

\* A finite float: sgn * man * 2^exp, man = 0 or MantLo <= man < MantHi.
Num(s, m, e) == [cls |-> "num", sgn |-> s, man |-> m, exp |-> e]

Zero(s) == Num(s, 0, 0)

Inf(s) == [cls |-> "inf", sgn |-> s, man |-> 0, exp |-> 0]

NaN == [cls |-> "nan", sgn |-> 1, man |-> 0, exp |-> 0]

IsNum(a) == a.cls = "num"

IsNaN(a) == a.cls = "nan"

IsInf(a) == a.cls = "inf"

IsZero(a) == a.cls = "num" /\ a.man = 0

BitLen4(n) == IF n < 1 THEN 0 ELSE IF n < 2 THEN 1 ELSE IF n < 4 THEN 2
              ELSE IF n < 8 THEN 3 ELSE 4

BitLen8(n) == IF n < 16 THEN BitLen4(n) ELSE 4 + BitLen4(n \div 16)

BitLen16(n) == IF n < 256 THEN BitLen8(n) ELSE 8 + BitLen8(n \div 256)

\* Number of binary digits of n, 0 <= n < 2^31
BitLen(n) == IF n < 65536 THEN BitLen16(n) ELSE 16 + BitLen16(n \div 65536)

\* sgn * q * 2^e for a rounded mantissa q <= MantHi
Pack(s, q, e) ==
    IF q = MantHi THEN Num(s, MantLo, e + 1) ELSE Num(s, q, e)

\* Ties to even: q + r/(2*half), q at least MantLo, to the nearest mantissa
RoundUp(s, q, r, half, e, sticky) ==
    Pack(s,
         IF r > half \/ (r = half /\ (sticky \/ q % 2 = 1)) THEN q + 1 ELSE q,
         e)

\* n has L binary digits
RoundLen(s, n, e, sticky, L) ==
    IF L <= Precision
    THEN Num(s, n * Pow2(Precision - L), e - (Precision - L))
    ELSE RoundUp(s, n \div Pow2(L - Precision), n % Pow2(L - Precision),
                 Pow2(L - Precision - 1), e + (L - Precision), sticky)

\* The float nearest to s * n * 2^e (ties to even); sticky says that the
\* exact value lies strictly above n * 2^e, by less than one unit of n.
Round(s, n, e, sticky) ==
    IF n = 0 THEN Zero(s) ELSE RoundLen(s, n, e, sticky, BitLen(n))

Abs(n) == IF n < 0 THEN -n ELSE n

FromInt(n) == Round(IF n < 0 THEN -1 ELSE 1, Abs(n), 0, FALSE)

FNeg(a) == IF IsNaN(a) THEN NaN ELSE [a EXCEPT !.sgn = -a.sgn]

FAbs(a) == IF IsNaN(a) THEN NaN ELSE [a EXCEPT !.sgn = 1]

FMul(a, b) ==
    IF IsNaN(a) \/ IsNaN(b) THEN NaN
    ELSE IF IsInf(a) \/ IsInf(b)
         THEN IF IsZero(a) \/ IsZero(b) THEN NaN ELSE Inf(a.sgn * b.sgn)
    ELSE Round(a.sgn * b.sgn, a.man * b.man, a.exp + b.exp, FALSE)

FDiv(a, b) ==
    IF IsNaN(a) \/ IsNaN(b) THEN NaN
    ELSE IF IsInf(a) THEN (IF IsInf(b) THEN NaN ELSE Inf(a.sgn * b.sgn))
    ELSE IF IsInf(b) THEN Zero(a.sgn * b.sgn)
    ELSE IF IsZero(b) THEN (IF IsZero(a) THEN NaN ELSE Inf(a.sgn * b.sgn))
    ELSE IF IsZero(a) THEN Zero(a.sgn * b.sgn)
    ELSE LET n == a.man * Pow2(Precision + 1)
         IN Round(a.sgn * b.sgn, n \div b.man,
                  a.exp - b.exp - (Precision + 1), n % b.man # 0)

\* The float nearest to the integer n times 2^e
RoundInt(n, e) ==
    IF n = 0 THEN Zero(1)
    ELSE Round(IF n < 0 THEN -1 ELSE 1, Abs(n), e, FALSE)

\* Sum of two finite non-zero floats, a.exp >= b.exp.
AddAligned(a, b) ==
    IF a.exp - b.exp > Precision + 2 THEN a
    ELSE RoundInt(a.sgn * a.man * Pow2(a.exp - b.exp) + b.sgn * b.man, b.exp)

FAdd(a, b) ==
    IF IsNaN(a) \/ IsNaN(b) THEN NaN
    ELSE IF IsInf(a) THEN (IF IsInf(b) /\ a.sgn # b.sgn THEN NaN ELSE a)
    ELSE IF IsInf(b) THEN b
    ELSE IF IsZero(a) THEN (IF IsZero(b) /\ a.sgn # b.sgn THEN Zero(1) ELSE b)
    ELSE IF IsZero(b) THEN a
    ELSE IF a.exp >= b.exp THEN AddAligned(a, b) ELSE AddAligned(b, a)

FSub(a, b) == FAdd(a, FNeg(b))

\* Order on finite floats and infinities: -1, 0 or 1 as a < b, a = b, a > b.
Key(a) == IF IsInf(a) THEN <<a.sgn, 1, 0, 0>>
          ELSE IF a.man = 0 THEN <<0, 0, 0, 0>>
          ELSE <<a.sgn, 0, a.exp, a.man>>

IntCmp(m, n) == IF m < n THEN -1 ELSE IF m > n THEN 1 ELSE 0

CmpKey(ka, kb) ==
    IF ka[1] # kb[1] THEN IntCmp(ka[1], kb[1])
    ELSE IF ka[2] # kb[2] THEN ka[1] * IntCmp(ka[2], kb[2])
    ELSE IF ka[3] # kb[3] THEN ka[1] * IntCmp(ka[3], kb[3])
    ELSE ka[1] * IntCmp(ka[4], kb[4])

Cmp(a, b) == CmpKey(Key(a), Key(b))

FEq(a, b) == ~IsNaN(a) /\ ~IsNaN(b) /\ Cmp(a, b) = 0

FLt(a, b) == ~IsNaN(a) /\ ~IsNaN(b) /\ Cmp(a, b) < 0

FLe(a, b) == ~IsNaN(a) /\ ~IsNaN(b) /\ Cmp(a, b) <= 0

FGt(a, b) == FLt(b, a)

FGe(a, b) == FLe(b, a)

RECURSIVE ISqrtIter(_, _)

ISqrtStep(n, x, x2) == IF x2 >= x THEN x ELSE ISqrtIter(n, x2)

\* Newton's iteration x -> (x + n div x) div 2 from x >= sqrt(n), which
\* falls until it reaches floor(sqrt(n))
ISqrtIter(n, x) == ISqrtStep(n, x, (x + n \div x) \div 2)

\* floor(sqrt(n)) for 0 < n < 2^(2 * Precision + 2)
ISqrt(n) == ISqrtIter(n, 2 * MantHi)

\* sqrt(m * 2^k) * 2^h, k chosen to make the exponent h whole
SqrtRound(n, q, h) == Round(1, q, h, q * q # n)

SqrtScaled(m, k, h) == SqrtRound(m * Pow2(k), ISqrt(m * Pow2(k)), h)

FSqrt(a) ==
    IF IsNaN(a) THEN NaN
    ELSE IF IsZero(a) THEN a
    ELSE IF a.sgn < 0 THEN NaN
    ELSE IF IsInf(a) THEN a
    ELSE IF (a.exp - (Precision + 1)) % 2 = 0
         THEN SqrtScaled(a.man, Precision + 1, (a.exp - (Precision + 1)) \div 2)
         ELSE SqrtScaled(a.man, Precision + 2, (a.exp - (Precision + 2)) \div 2)

One == FromInt(1)

Two == FromInt(2)

\* The decimal literal n * 10^(-k).
Dec(n, k) == FDiv(FromInt(n), FromInt(10^k))

\* np.pi
FPi == Dec(314159265, 8)

\* np.sqrt(np.pi)
SqrtPi == FSqrt(FPi)

\* np.sqrt(2)
SqrtTwo == FSqrt(Two)

Half == Dec(5, 1)

Four == FromInt(4)

\* x**3 and x**2 (integer powers, by repeated multiplication)
Cube(x) == FMul(FMul(x, x), x)

Square(x) == FMul(x, x)

\* x**(3/2) for x >= 0: x * sqrt(x); NaN for x < 0
PowThreeHalves(x) == FMul(x, FSqrt(x))

\* x**(-3.0/2.0): the reciprocal; +inf at x = 0
PowMinusThreeHalves(x) == FDiv(One, FMul(x, FSqrt(x)))

RECURSIVE CbrtIter(_, _, _)

\* One step of Newton's iteration for y^3 = x: (2*y + x/y^2)/3
CbrtNext(x, y) == FDiv(FAdd(FMul(Two, y), FDiv(x, Square(y))), FromInt(3))

CbrtStep(x, y, y2, n) == IF y2 = y THEN y ELSE CbrtIter(x, y2, n - 1)

CbrtIter(x, y, n) == IF n = 0 THEN y ELSE CbrtStep(x, y, CbrtNext(x, y), n)

\* x**(1.0/3.0) for x >= 1 (Newton's iteration, to within a unit in the
\* last place)
Cbrt(x) == CbrtIter(x, x, 24)

RECURSIVE ExpHorner(_, _, _)

ExpHornerStep(y, k, a2) == IF IsNum(a2) THEN ExpHorner(y, k - 1, a2) ELSE a2

\* 1 + (y/1) * (1 + (y/2) * ( ... (1 + y/k))), the Taylor series of exp,
\* from the innermost bracket (acc) outwards
ExpHorner(y, k, acc) ==
    IF k = 0 THEN acc
    ELSE ExpHornerStep(y, k, FAdd(One, FMul(FDiv(y, FromInt(k)), acc)))

RECURSIVE SquareN(_, _)

SquareStep(b2, k) == IF IsNum(b2) THEN SquareN(b2, k - 1) ELSE b2

\* b^(2^k)
SquareN(b, k) == IF k = 0 THEN b ELSE SquareStep(Square(b), k)

\* 2^k is the least power of two with y / 2^k <= 1/2
Halvings(y) == IF y.exp + Precision > -1 THEN y.exp + Precision + 1 ELSE 0

\* exp(y) for finite 0 < y < 1024: exp(y / 2^k)^(2^k) with y / 2^k <= 1/2,
\* whose Taylor series is below half a unit in the last place from the
\* ninth term on
ExpPos(y) ==
    SquareN(ExpHorner(Num(1, y.man, y.exp - Halvings(y)), 8, One), Halvings(y))

Recip(a, b) == IF a.sgn > 0 THEN b ELSE FDiv(One, b)

\* np.exp; float64's exponent range ends below exp(1024), so the result
\* overflows to inf (underflows to 0) beyond it
FExp(a) ==
    IF IsNaN(a) THEN NaN
    ELSE IF IsZero(a) THEN One
    ELSE IF IsInf(a) \/ a.exp + Precision > 10
         THEN (IF a.sgn > 0 THEN Inf(1) ELSE Zero(1))
    ELSE Recip(a, ExpPos(FAbs(a)))

RECURSIVE ErfSeries(_, _, _, _)

\* sum over n of (2 X^2)^n / (2n+1)!!, accumulated until a term no longer
\* changes the sum; next is the term to add to sum, n >= 1 its index
ErfSeries(twoX2, next, sum, n) ==
    IF FAdd(sum, next) = sum
    THEN sum
    ELSE ErfSeries(twoX2, FDiv(FMul(next, twoX2), FromInt(2 * n + 3)),
                   FAdd(sum, next), n + 1)

\* The series from its term of index 1, (2 X^2)/3, on
ErfFrom(twoX2) == ErfSeries(twoX2, FDiv(twoX2, FromInt(3)), One, 1)

\* erf is never above 1 in magnitude
ErfClamp(sg, v) ==
    IF FGt(v, One) THEN Num(sg, MantLo, 1 - Precision)
    ELSE [v EXCEPT !.sgn = sg]

\* (2/sqrt(pi)) * X * exp(-X^2) * sum for X > 0, X2 = X^2
ErfPos(X, X2) ==
    FMul(FMul(FDiv(Two, SqrtPi), X),
         FMul(FExp(FNeg(X2)), ErfFrom(FMul(Two, X2))))

ErfAbs(X) == ErfPos(X, Square(X))

\* The coefficients of the rational approximation of erf on [-1, 1]:
\* erf(x) = x * T(x^2) / U(x^2), U with leading coefficient 1
ErfT0 == Dec(960497374, 8)

ErfT1 == Dec(900260197, 7)

ErfT2 == Dec(223200535, 5)

ErfT3 == Dec(700332514, 5)

ErfT4 == Dec(555923013, 4)

ErfU0 == Dec(335617142, 7)

ErfU1 == Dec(521357950, 6)

ErfU2 == Dec(459432383, 5)

ErfU3 == Dec(226290001, 4)

ErfU4 == Dec(492673943, 4)

\* One step of Horner's rule
Horner(acc, zz, c) == FAdd(FMul(acc, zz), c)

polevl(zz) ==
    Horner(Horner(Horner(Horner(ErfT0, zz, ErfT1), zz, ErfT2), zz, ErfT3),
           zz, ErfT4)

p1evl(zz) ==
    Horner(Horner(Horner(Horner(FAdd(zz, ErfU0), zz, ErfU1), zz, ErfU2),
                  zz, ErfU3),
           zz, ErfU4)

\* y = x * polevl(z, T, 4) / p1evl(z, U, 5) with z = x*x, for |x| <= 1
ErfRational(x, zz) == FDiv(FMul(x, polevl(zz)), p1evl(zz))

\* scipy.special.erf: odd in X; the rational approximation up to |X| = 1,
\* beyond it the series (in the place of 1 - erfc(X)), and 1 to working
\* precision from X = 4 on
FErf(a) ==
    IF IsNaN(a) THEN NaN
    ELSE IF IsZero(a) THEN a
    ELSE IF IsInf(a) \/ FGe(FAbs(a), Four)
         THEN Num(a.sgn, MantLo, 1 - Precision)
    ELSE IF FLe(FAbs(a), One) THEN ErfRational(a, Square(a))
    ELSE ErfClamp(a.sgn, ErfAbs(FAbs(a)))

(***************************************************************************)
(* The notebook                                                            *)
(***************************************************************************)

VARIABLES
    G_N, M_PBH, r_tr, A,        \* the globals of the constants cell
    fn, s, prev, last,          \* a session calling one of the functions
    pc, e, a, P, r0, v_apo, s_init, tvals,
    i, y, rows, ode_result,     \* the cells from the set-up to the driver
    calls, error                \* the calls of odeint made, the exception
                                \* that ended the driver cell

globals == <<G_N, M_PBH, r_tr, A>>

session == <<fn, s, prev, last>>

cells ==
    <<pc, e, a, P, r0, v_apo, s_init, tvals, i, y, rows, ode_result, calls,
      error>>

vars == <<globals, session, cells>>

\* A name that no cell has assigned yet.
Unset == [cls |-> "unset", sgn |-> 1, man |-> 0, exp |-> 0]

\* Faulty variant of MencInner: the mass of the black hole left out
MencInner_NoCore(r) == FMul(M_PBH, PowThreeHalves(FDiv(r, r_tr)))

\* Faulty variant of MencInner: the exponent of the density profile, -3/2
MencInner_Falling(r) ==
    FMul(M_PBH, FAdd(One, PowMinusThreeHalves(FDiv(r, r_tr))))

\* Faulty variant of MencInner: the halo counted twice
MencInner_HaloTwice(r) ==
    FMul(M_PBH, FAdd(One, FMul(Two, PowThreeHalves(FDiv(r, r_tr)))))

\* M_PBH*(1+(r/r_tr)**(3/2)), the branch of Menc within the halo
MencInner(r) == FMul(M_PBH, FAdd(One, PowThreeHalves(FDiv(r, r_tr))))

\* Faulty variant of Menc: the halo not truncated at r_tr
Menc_NoTruncation(r) ==
    FMul(M_PBH, FAdd(One, PowThreeHalves(FDiv(r, r_tr))))

\* Mass of PBH + DM within a radius r
Menc(r) == IF FGt(r, r_tr) THEN FMul(Two, M_PBH) ELSE MencInner(r)

\* Faulty variant of density: the halo not truncated at r_tr
density_NoTruncation(r) == FMul(A, PowMinusThreeHalves(FDiv(r, r_tr)))

\* Faulty variant of density: the test r >= r_tr in the place of r > r_tr
density_ClosedCut(r) ==
    IF FGe(r, r_tr)
    THEN Zero(1)
    ELSE FMul(A, PowMinusThreeHalves(FDiv(r, r_tr)))

density(r) ==
    IF FGt(r, r_tr)
    THEN Zero(1)
    ELSE FMul(A, PowMinusThreeHalves(FDiv(r, r_tr)))

\* np.sqrt(x[0]**2 + x[1]**2)
Norm2(x) == FSqrt(FAdd(Square(x[1]), Square(x[2])))

\* Faulty variant of GravComponent: the sign left out
GravComponent_Repulsive(xi, m, r3) ==
    FDiv(FMul(FMul(FMul(xi, G_N), m), M_PBH), r3)

\* One component of -x*G_N*Menc(r)*M_PBH/r**3, left to right
GravComponent(xi, m, r3) ==
    FDiv(FMul(FMul(FMul(FNeg(xi), G_N), m), M_PBH), r3)

GravAt(x, r) ==
    <<GravComponent(x[1], Menc(r), Cube(r)),
      GravComponent(x[2], Menc(r), Cube(r))>>

\* Faulty variant of F_grav: the radius taken from the velocity
F_grav_RadiusOfVelocity(x, v) == GravAt(x, Norm2(v))

\* r = np.sqrt(x[0]**2 + x[1]**2); return -x*G_N*Menc(r)*M_PBH/r**3
F_grav(x, v) == GravAt(x, Norm2(x))

\* Faulty variant of CorrAt: the factor 2*X/sqrt(pi) left out
CorrAt_Gaussian(X) == FSub(FErf(X), FExp(FNeg(Square(X))))

\* erf(X) - (2*X/np.sqrt(np.pi))*np.exp(-X**2)
CorrAt(X) ==
    FSub(FErf(X), FMul(FDiv(FMul(Two, X), SqrtPi), FExp(FNeg(Square(X)))))

\* disp = np.sqrt(2*G_N*Menc(r)/r), which the function computes and does
\* not use
Disp(r) == FSqrt(FDiv(FMul(FMul(Two, G_N), Menc(r)), r))

\* Correction due to the speed distribution of DM in the halo:
\* X = v_abs/np.sqrt(2)
dist_corr(r, v_abs) == CorrAt(FDiv(v_abs, SqrtTwo))

\* norm = 4*np.pi*(M_PBH**2)*(G_N**2)
DynNorm == FMul(FMul(FMul(Four, FPi), Square(M_PBH)), Square(G_N))

\* Faulty variant of DynComponent: the sign left out
DynComponent_Accelerating(vi, rho, corr, v3) ==
    FDiv(FMul(FMul(FMul(DynNorm, vi), rho), corr), v3)

\* One component of -norm*v*density(r)*dist_corr(r, v_abs)/v_abs**3, left
\* to right
DynComponent(vi, rho, corr, v3) ==
    FDiv(FMul(FMul(FMul(FNeg(DynNorm), vi), rho), corr), v3)

DynScaled(v, rho, corr, v3) ==
    <<DynComponent(v[1], rho, corr, v3), DynComponent(v[2], rho, corr, v3)>>

\* Faulty variant of DynAt: no friction on a body at rest, a finite value
\* put in the place of 0/0
DynAt_Guarded(v, r, v_abs) ==
    IF IsZero(v_abs)
    THEN <<Zero(1), Zero(1)>>
    ELSE DynScaled(v, density(r), dist_corr(r, v_abs), Cube(v_abs))

DynAt(v, r, v_abs) ==
    DynScaled(v, density(r), dist_corr(r, v_abs), Cube(v_abs))

\* r and v_abs are the norms of x and v; the Coulomb logarithm is taken to
\* be 1
F_dyn(x, v) == DynAt(v, Norm2(x), Norm2(v))

\* Faulty variant of Acceleration: the force not divided by the mass
Acceleration_NoMass(fg, fd) == <<FAdd(fg[1], fd[1]), FAdd(fg[2], fd[2])>>

\* force = F_grav(x,v) + F_dyn(x,v); ds[2] = force[0]/M_PBH;
\* ds[3] = force[1]/M_PBH
Acceleration(fg, fd) ==
    <<FDiv(FAdd(fg[1], fd[1]), M_PBH), FDiv(FAdd(fg[2], fd[2]), M_PBH)>>

\* ds = s*0.0 is a new array; ds[0] = s[2]; ds[1] = s[3]; ds[2], ds[3] the
\* acceleration
Derivative(sv, acc) == <<sv[3], sv[4], acc[1], acc[2]>>

\* Faulty variant of dsdt: ds = s, the derivative written into the caller's
\* array
dsdt_InPlace(sv, t) ==
    [arg |-> Derivative(sv,
                 Acceleration(F_grav(SubSeq(sv, 1, 2), SubSeq(sv, 3, 4)),
                              F_dyn(SubSeq(sv, 1, 2), SubSeq(sv, 3, 4)))),
     ret |-> Derivative(sv,
                 Acceleration(F_grav(SubSeq(sv, 1, 2), SubSeq(sv, 3, 4)),
                              F_dyn(SubSeq(sv, 1, 2), SubSeq(sv, 3, 4))))]

\* Faulty variant of dsdt: the time added to the first component
dsdt_Timed(sv, t) ==
    [arg |-> sv,
     ret |-> Derivative(<<sv[1], sv[2], FAdd(sv[3], t), sv[4]>>,
                 Acceleration(F_grav(SubSeq(sv, 1, 2), SubSeq(sv, 3, 4)),
                              F_dyn(SubSeq(sv, 1, 2), SubSeq(sv, 3, 4))))]

\* The derivative of the phase-space coordinates s = [x, y, v_x, v_y] (here
\* s[1..4]).  arg is the caller's array s as the call leaves it, ret the
\* array returned.
dsdt(sv, t) ==
    [arg |-> sv,
     ret |-> Derivative(sv,
                        Acceleration(F_grav(SubSeq(sv, 1, 2), SubSeq(sv, 3, 4)),
                                     F_dyn(SubSeq(sv, 1, 2), SubSeq(sv, 3, 4))))]

(***************************************************************************)
(* The constants cell                                                      *)
(***************************************************************************)

\* Faulty variant of ConstantsOf: A = 3*M_PBH/(4*np.pi*r_tr**3), the
\* normalisation of a uniform ball
ConstantsOf_UniformBall(g, m, r) ==
    [G_N   |-> g,
     M_PBH |-> m,
     r_tr  |-> r,
     A     |-> FDiv(FMul(FromInt(3), m), FMul(FMul(Four, FPi), Cube(r)))]

\* G_N = 4.302e-3; M_PBH = 30.0; r_tr = 0.0063*(M_PBH**(1.0/3.0));
\* A = 3*M_PBH/(8*np.pi*r_tr**3)
ConstantsOf(g, m, r) ==
    [G_N   |-> g,
     M_PBH |-> m,
     r_tr  |-> r,
     A     |-> FDiv(FMul(FromInt(3), m), FMul(FMul(FromInt(8), FPi), Cube(r)))]

Constants ==
    ConstantsOf(Dec(4302, 6), FromInt(30), FMul(Dec(63, 4), Cbrt(FromInt(30))))

ConstantsCell ==
    /\ G_N = Constants.G_N
    /\ M_PBH = Constants.M_PBH
    /\ r_tr = Constants.r_tr
    /\ A = Constants.A

(***************************************************************************)
(* The set-up cell and the driver cell                                     *)
(***************************************************************************)

\* Number of samples of the time grid
NumSamples == 1000

\* Faulty variant of Period: the mass of one body in the place of the two
Period_OneMass(aa) ==
    FMul(FMul(Two, FPi), FSqrt(FDiv(Cube(aa), FMul(M_PBH, G_N))))

\* P = 2*np.pi*np.sqrt(a**3/(2*M_PBH*G_N))
Period(aa) ==
    FMul(FMul(Two, FPi), FSqrt(FDiv(Cube(aa), FMul(FMul(Two, M_PBH), G_N))))

\* Faulty variant of Apoapsis: the periapsis (1-e)*a
Apoapsis_Periapsis(ee, aa) == FMul(FSub(One, ee), aa)

\* Faulty variant of Apoapsis: the semi-major axis whatever e is
Apoapsis_Fixed(ee, aa) == aa

\* r0 = (1+e)*a
Apoapsis(ee, aa) == FMul(FAdd(One, ee), aa)

\* v_apo = np.sqrt(2*M_PBH*G_N*(2.0/r0 - 1.0/a))
ApoSpeed(rr, aa) ==
    FSqrt(FMul(FMul(FMul(Two, M_PBH), G_N),
               FSub(FDiv(Two, rr), FDiv(One, aa))))

\* Faulty variant of InitialState: the body starts at the origin
InitialState_AtOrigin(rr, vv) == <<Zero(1), Zero(1), vv, Zero(1)>>

\* s_init = np.append(x_init, v_init), x_init = [0, r0], v_init = [v_apo, 0]
InitialState(rr, vv) == <<Zero(1), rr, vv, Zero(1)>>

\* Faulty variant of Samples: every sample but the last is start + step
Samples_Stalled(start, stop, num, step) ==
    [k \in 1..num |-> IF k = num THEN stop ELSE FAdd(step, start)]

\* np.linspace(start, stop, num): start + k*step for k = 0 .. num-1 with
\* step = (stop - start)/(num - 1), the last sample set to stop itself
Samples(start, stop, num, step) ==
    [k \in 1..num |->
       IF k = num THEN stop ELSE FAdd(FMul(FromInt(k - 1), step), start)]

\* Faulty variant of linspace: the end point left out (endpoint=False)
linspace_Open(start, stop, num) ==
    [k \in 1..(num - 1) |->
       FAdd(FMul(FromInt(k - 1), FDiv(FSub(stop, start), FromInt(num - 1))),
            start)]

linspace(start, stop, num) ==
    Samples(start, stop, num, FDiv(FSub(stop, start), FromInt(num - 1)))

\* A quarter of the gap between 1 and the next float above it (2^-54 for
\* float64): an eccentricity that 1+e does not resolve
SubUlp == Num(1, MantLo, -2 * Precision)

\* The largest eccentricity below 1: 1 - ulp(1)/2
NearOne == Num(1, MantHi - 1, -Precision)

\* The eccentricities and semi-major axes the set-up cell is run with; the
\* notebook's are e = 0.999 and a = 2*r_tr
Eccentricities == {Zero(1), SubUlp, Half, Dec(999, 3), NearOne}

SemiMajorAxes == {FMul(Half, Constants.r_tr), FMul(Two, Constants.r_tr)}

SetupCell(ee, aa) ==
    /\ pc = "setup"
    /\ e' = ee
    /\ a' = aa
    /\ P' = Period(aa)
    /\ \E rr \in {Apoapsis(ee, aa)} :
          /\ r0' = rr
          /\ \E vv \in {ApoSpeed(rr, aa)} :
                /\ v_apo' = vv
                /\ s_init' = InitialState(rr, vv)
    /\ pc' = "driver"
    /\ UNCHANGED <<tvals, i, y, rows, ode_result, calls, error, globals,
                   session>>

\* tvals = np.linspace(0, 0.6*P, 1000), and odeint is entered
DriverCell ==
    /\ pc = "driver"
    /\ tvals' = linspace(Zero(1), FMul(Dec(6, 1), P), NumSamples)
    /\ i' = 1
    /\ y' = s_init
    /\ rows' = <<s_init>>
    /\ calls' = calls + 1
    /\ pc' = "odeint"
    /\ UNCHANGED <<e, a, P, r0, v_apo, s_init, ode_result, error, globals,
                   session>>

\* y + h*dy, elementwise
Advance(yy, h, dy) == [k \in 1..4 |-> FAdd(yy[k], FMul(h, dy[k]))]

\* odeint advances from sample i to sample i+1, calling dsdt on its own
\* copy of the state (the stepping scheme is scipy's; one forward step per
\* sample stands for it)
OdeintStep ==
    /\ pc = "odeint"
    /\ i < Len(tvals)
    /\ \E d \in {dsdt(y, tvals[i])} :
         \E y2 \in {Advance(d.arg, FSub(tvals[i + 1], tvals[i]), d.ret)} :
            /\ y' = y2
            /\ rows' = Append(rows, y2)
    /\ i' = i + 1
    /\ UNCHANGED <<pc, e, a, P, r0, v_apo, s_init, tvals, ode_result, calls,
                   error, globals, session>>

\* ode_result = odeint(dsdt, s_init, tvals) returns
OdeintReturn ==
    /\ pc = "odeint"
    /\ i = Len(tvals)
    /\ ode_result' = rows
    /\ pc' = "plot"
    /\ UNCHANGED <<e, a, P, r0, v_apo, s_init, tvals, i, y, rows, calls,
                   error, globals, session>>

\* The exceptions odeint can end with: one raised by dsdt, one of its own
SolverFailures == {"callback", "odepack"}

\* Faulty variant of OdeintRaises: the exception caught and the driver cell
\* run again
OdeintRaises_Retry(f) ==
    /\ pc = "odeint"
    /\ error' = "none"
    /\ i' = 0 /\ y' = <<>> /\ rows' = <<>>
    /\ pc' = "driver"
    /\ UNCHANGED <<e, a, P, r0, v_apo, s_init, tvals, ode_result, calls,
                   globals, session>>

\* odeint raises f: the driver cell has no handler, so ode_result is not
\* assigned, the cell ends with f and the solver's work is lost
OdeintRaises(f) ==
    /\ pc = "odeint"
    /\ error' = f
    /\ i' = 0 /\ y' = <<>> /\ rows' = <<>>
    /\ pc' = "failed"
    /\ UNCHANGED <<e, a, P, r0, v_apo, s_init, tvals, ode_result, calls,
                   globals, session>>

\* The plotting cell reads tvals, ode_result, x_init, r_tr and r0
PlotCell ==
    /\ pc = "plot"
    /\ pc' = "done"
    /\ UNCHANGED <<e, a, P, r0, v_apo, s_init, tvals, i, y, rows, ode_result,
                   calls, error, globals, session>>

NoCall == [fn |-> "none", args |-> <<>>, ret |-> <<>>]

ZeroState == <<Zero(1), Zero(1), Zero(1), Zero(1)>>

CellsInit ==
    /\ pc = "setup"
    /\ e = Unset /\ a = Unset /\ P = Unset /\ r0 = Unset /\ v_apo = Unset
    /\ s_init = <<>> /\ tvals = <<>> /\ ode_result = <<>>
    /\ i = 0 /\ y = <<>> /\ rows = <<>>
    /\ calls = 0 /\ error = "none"

\* The notebook after the constants cell and the function definitions
Init ==
    /\ ConstantsCell
    /\ CellsInit
    /\ fn = "none" /\ s = ZeroState /\ prev = NoCall /\ last = NoCall

Next ==
    \/ \E ee \in Eccentricities, aa \in SemiMajorAxes : SetupCell(ee, aa)
    \/ DriverCell
    \/ OdeintStep
    \/ OdeintReturn
    \/ \E f \in SolverFailures : OdeintRaises(f)
    \/ PlotCell

Spec == Init /\ [][Next]_vars

(***************************************************************************)
(* Sessions: one of the notebook's functions called on inputs of a grid.   *)
(* last is the latest call and prev the one before it.                     *)
(***************************************************************************)

\* The float next above and next below a positive float
NextUp(f) == IF f.man + 1 = MantHi THEN Num(f.sgn, MantLo, f.exp + 1)
             ELSE Num(f.sgn, f.man + 1, f.exp)

NextDown(f) == IF f.man = MantLo THEN Num(f.sgn, MantHi - 1, f.exp - 1)
               ELSE Num(f.sgn, f.man - 1, f.exp)

\* k * r_tr
Scaled(k) == FMul(k, Constants.r_tr)

Radii ==
    {Zero(1), NextDown(Constants.r_tr), NextUp(Constants.r_tr)} \cup
    {Scaled(k) : k \in {Dec(25, 2), Half, Dec(75, 2), One, Dec(125, 2), Two,
                        FromInt(3)}}

PosVals == {Scaled(k) : k \in {FromInt(-2), FNeg(Half), Zero(1), Half, One}}

VelVals == {FromInt(-1), Zero(1), Dec(25, 2)}

\* The velocity components F_dyn is called with: those of VelVals and a
\* slow one
DynVelVals == VelVals \cup {Dec(1, 2)}

Speeds == {Zero(1), Dec(25, 2), One, FromInt(3), FromInt(8), FromInt(1000)}

CorrRadii == {Zero(1), Scaled(Half), Scaled(Two)}

\* The velocities F_grav is called with
GravVelocities ==
    {<<Zero(1), Zero(1)>>, <<FromInt(-1), Dec(25, 2)>>, <<Dec(25, 2), Zero(1)>>}

Times == {Zero(1), One}

Functions == {"Menc", "density", "F_grav", "dist_corr", "F_dyn", "dsdt"}

\* The states [x, y, v_x, v_y] a session of f starts with
StatesFor(f) ==
    IF f = "dsdt"
    THEN {<<px, py, vx, vy>> : px \in PosVals, py \in PosVals,
                               vx \in VelVals, vy \in VelVals}
    ELSE IF f = "F_dyn"
    THEN {<<px, py, vx, vy>> : px \in PosVals, py \in PosVals,
                               vx \in DynVelVals, vy \in DynVelVals}
    ELSE IF f = "F_grav"
    THEN {<<px, py, Zero(1), Zero(1)>> : px \in PosVals, py \in PosVals}
    ELSE {ZeroState}

Record(f, args, ret) ==
    /\ prev' = last
    /\ last' = [fn |-> f, args |-> args, ret |-> ret]

Call_Menc(r) ==
    /\ fn = "Menc"
    /\ Record("Menc", <<r>>, Menc(r))
    /\ UNCHANGED <<fn, s, globals, cells>>

Call_density(r) ==
    /\ fn = "density"
    /\ Record("density", <<r>>, density(r))
    /\ UNCHANGED <<fn, s, globals, cells>>

\* F_grav at the position of s and a velocity v
Call_F_grav(v) ==
    /\ fn = "F_grav"
    /\ Record("F_grav", <<SubSeq(s, 1, 2), v>>, F_grav(SubSeq(s, 1, 2), v))
    /\ UNCHANGED <<fn, s, globals, cells>>

Call_dist_corr(r, v_abs) ==
    /\ fn = "dist_corr"
    /\ Record("dist_corr", <<r, v_abs>>, dist_corr(r, v_abs))
    /\ UNCHANGED <<fn, s, globals, cells>>

\* F_dyn at the position and the velocity of s
Call_F_dyn ==
    /\ fn = "F_dyn"
    /\ Record("F_dyn", <<SubSeq(s, 1, 2), SubSeq(s, 3, 4)>>,
              F_dyn(SubSeq(s, 1, 2), SubSeq(s, 3, 4)))
    /\ UNCHANGED <<fn, s, globals, cells>>

\* dsdt(s, t) on the array s of the session
Call_dsdt(t) ==
    /\ fn = "dsdt"
    /\ \E res \in {dsdt(s, t)} :
          /\ s' = res.arg
          /\ Record("dsdt", <<s, t>>, res.ret)
    /\ UNCHANGED <<fn, globals, cells>>

FnInit ==
    /\ ConstantsCell
    /\ CellsInit
    /\ fn \in Functions
    /\ s \in StatesFor(fn)
    /\ prev = NoCall /\ last = NoCall

FnNext ==
    \/ \E r \in Radii : Call_Menc(r)
    \/ \E r \in Radii : Call_density(r)
    \/ \E v \in GravVelocities : Call_F_grav(v)
    \/ \E r \in CorrRadii, v_abs \in Speeds : Call_dist_corr(r, v_abs)
    \/ Call_F_dyn
    \/ \E t \in Times : Call_dsdt(t)

FnSpec == FnInit /\ [][FnNext]_vars

(***************************************************************************)
(* Properties                                                              *)
(***************************************************************************)

\* 2^(k - Precision): k half units in the last place, relative
RelErr(k) == Num(1, MantLo, k + 1 - 2 * Precision)

\* f and g agree to within k half units in the last place of g
Close(f, g, k) == FLe(FAbs(FSub(f, g)), FMul(RelErr(k), FAbs(g)))

\* -1, 0 or 1
Sign(f) == IF IsZero(f) THEN 0 ELSE f.sgn

NonZeroVec(x) == ~IsZero(x[1]) \/ ~IsZero(x[2])

\* C1: for a state s = [x, y, vx, vy] with (x, y) # (0, 0) and
\* (vx, vy) # (0, 0) and any time t, dsdt(s, t) returns four components, the
\* first two exactly vx and vy, the last two the components of
\* (F_grav(x, v) + F_dyn(x, v)) / M_PBH.
C1_DsdtComponents ==
    (last.fn = "dsdt" /\ NonZeroVec(SubSeq(last.args[1], 1, 2))
                      /\ NonZeroVec(SubSeq(last.args[1], 3, 4)))
    => LET sv == last.args[1]
           x  == <<sv[1], sv[2]>>
           v  == <<sv[3], sv[4]>>
           fg == F_grav(x, v)
           fd == F_dyn(x, v)
       IN /\ Len(last.ret) = 4
          /\ last.ret[1] = sv[3]
          /\ last.ret[2] = sv[4]
          /\ last.ret[3] = FDiv(FAdd(fg[1], fd[1]), M_PBH)
          /\ last.ret[4] = FDiv(FAdd(fg[2], fd[2]), M_PBH)

\* A call of dsdt within the halo, off the axes, with a finite non-zero
\* acceleration
C1_Witness ==
    /\ last.fn = "dsdt"
    /\ last.args[1] = <<Scaled(Half), Scaled(FNeg(Half)), FromInt(-1), Dec(25, 2)>>
    /\ IsNum(last.ret[3]) /\ ~IsZero(last.ret[3])
    /\ IsNum(last.ret[4]) /\ ~IsZero(last.ret[4])

\* C2: for every radius r > r_tr, Menc(r) is exactly 2*M_PBH and density(r)
\* is exactly 0.
C2_BeyondTruncation ==
    /\ (last.fn = "Menc" /\ FGt(last.args[1], r_tr))
          => last.ret = FMul(Two, M_PBH)
    /\ (last.fn = "density" /\ FGt(last.args[1], r_tr))
          => IsZero(last.ret)

\* density called just above r_tr, after a call further out
C2_Witness ==
    /\ last.fn = "density" /\ last.args[1] = NextUp(r_tr)
    /\ prev.fn = "density" /\ prev.args[1] = Scaled(FromInt(3))

\* C3: Menc is continuous at r_tr: the inner branch M_PBH*(1+(r/r_tr)^(3/2))
\* at r = r_tr is 2*M_PBH, which is what Menc returns there and for every
\* r > r_tr.
C3_ContinuousAtTruncation ==
    /\ MencInner(r_tr) = FMul(Two, M_PBH)
    /\ (last.fn = "Menc" /\ FGe(last.args[1], r_tr))
          => last.ret = FMul(Two, M_PBH)
    /\ (last.fn = "Menc" /\ FLe(last.args[1], r_tr))
          => last.ret = MencInner(last.args[1])

\* Menc called at r_tr, after a call just above it
C3_Witness ==
    /\ last.fn = "Menc" /\ last.args[1] = r_tr
    /\ prev.fn = "Menc" /\ prev.args[1] = NextUp(r_tr)
    /\ last.ret = prev.ret

\* C4: Menc is non-decreasing on [0, r_tr]: for 0 <= r1 <= r2 <= r_tr,
\* Menc(r1) <= Menc(r2).
C4_MencMonotone ==
    (/\ prev.fn = "Menc" /\ last.fn = "Menc"
     /\ FLe(Zero(1), prev.args[1])
     /\ FLe(prev.args[1], last.args[1])
     /\ FLe(last.args[1], r_tr))
    => FLe(prev.ret, last.ret)

\* Two calls at radii r1 < r2 within the halo, the enclosed mass growing
C4_Witness ==
    /\ prev.fn = "Menc" /\ last.fn = "Menc"
    /\ prev.args[1] = Scaled(Dec(25, 2))
    /\ last.args[1] = Scaled(Dec(75, 2))
    /\ FLt(prev.ret, last.ret)

\* k = G_N*Menc(r)*M_PBH/r^3 at the position x
GravFactor(x) ==
    FDiv(FMul(FMul(G_N, Menc(Norm2(x))), M_PBH), Cube(Norm2(x)))

\* C5: for every position x # (0, 0) and every velocity v, F_grav(x, v) is
\* -k*x with k = G_N*Menc(r)*M_PBH/r^3 > 0, within and beyond r_tr: each
\* component has the sign opposite to that of x and is -k*x to rounding.
C5_GravAntiParallel ==
    (last.fn = "F_grav" /\ NonZeroVec(last.args[1]))
    => LET x == last.args[1]
           k == GravFactor(x)
       IN /\ FGt(k, Zero(1))
          /\ \A j \in 1..2 :
               /\ Sign(last.ret[j]) = -Sign(x[j])
               /\ Close(last.ret[j], FNeg(FMul(k, x[j])), 4)

\* F_grav called twice at a position within the halo, off the axes, with two
\* velocities
C5_Witness ==
    /\ last.fn = "F_grav" /\ prev.fn = "F_grav"
    /\ last.args[1] = <<Scaled(Half), Scaled(FNeg(Half))>>
    /\ last.args[2] # prev.args[2]
    /\ last.ret = prev.ret
    /\ last.ret[1].sgn = -1 /\ last.ret[2].sgn = 1

\* k = norm*density(r)*dist_corr(r, v_abs)/v_abs^3 at the position x and the
\* velocity v
DynFactor(x, v) ==
    FDiv(FMul(FMul(DynNorm, density(Norm2(x))),
              dist_corr(Norm2(x), Norm2(v))),
         Cube(Norm2(v)))

OrbitalSpeed(v) == FGe(Norm2(v), Dec(25, 2)) /\ FLe(Norm2(v), Two)

VisViva == FMul(FMul(FMul(Two, M_PBH), G_N), FSub(FDiv(Two, r0), FDiv(One, a)))

\* C7: once the set-up cell has run, s_init = [0, r0, v_apo, 0] with
\* r0 = (1+e)*a and v_apo >= 0, v_apo^2 = 2*M_PBH*G_N*(2/r0 - 1/a) (to
\* rounding): the orbit starts on the y-axis at apoapsis with a velocity
\* along x.
C7_InitialState ==
    pc # "setup"
    => /\ s_init = <<Zero(1), r0, v_apo, Zero(1)>>
       /\ r0 = FMul(FAdd(One, e), a)
       /\ FGe(v_apo, Zero(1))
       /\ Close(Square(v_apo), VisViva, 4)

\* The set-up cell run with the notebook's e = 0.999 and a = 2*r_tr
C7_Witness ==
    /\ pc = "driver"
    /\ e = Dec(999, 3) /\ a = FMul(Two, r_tr)
    /\ FGt(s_init[2], a) /\ FGt(s_init[3], Zero(1))

\* C8: when the driver cell has run, ode_result holds one state of four
\* components for each of the 1000 samples of tvals, in their order, the
\* first the initial state; odeint has one row for each sample it has reached.
C8_OneStatePerSample ==
    /\ pc \in {"odeint", "plot", "done"} => Len(tvals) = NumSamples
    /\ pc = "odeint" => Len(rows) = i /\ i <= Len(tvals) /\ rows[1] = s_init
    /\ pc \in {"plot", "done"}
         => /\ Len(ode_result) = Len(tvals)
            /\ \A k \in 1..Len(ode_result) : Len(ode_result[k]) = 4
            /\ ode_result[1] = s_init

\* The driver cell has returned with the trajectory of the notebook's orbit
C8_Witness ==
    /\ pc = "plot"
    /\ e = Dec(999, 3) /\ a = FMul(Two, r_tr)
    /\ Len(ode_result) = NumSamples
    /\ ode_result[2] # ode_result[1]

\* C9: the time grid of the driver cell starts at 0 and is strictly
\* increasing, for each semi-major axis a > 0.
C9_TimeGrid ==
    ((pc = "odeint" /\ i = 1) \/ pc = "plot")
    => /\ IsZero(tvals[1])
       /\ \A k \in 1..(Len(tvals) - 1) : FLt(tvals[k], tvals[k + 1])

\* The grid built for the smaller of the semi-major axes
C9_Witness ==
    /\ pc = "odeint" /\ i = 1
    /\ a = FMul(Half, r_tr)
    /\ Len(tvals) = NumSamples
    /\ FGt(tvals[Len(tvals)], Zero(1))

\* C10: the functions have no side effects: after a call of dsdt the array s
\* passed to it is what it was, the array returned being a new one, and
\* after any calls of dsdt, F_grav and F_dyn the globals G_N, M_PBH, r_tr
\* and A are those of the constants cell.
C10_NoSideEffects ==
    /\ last.fn = "dsdt" => s = last.args[1]
    /\ prev.fn = "dsdt" => s = prev.args[1]
    /\ (last.fn \in {"dsdt", "F_grav", "F_dyn"})
          => /\ G_N = Constants.G_N /\ M_PBH = Constants.M_PBH
             /\ r_tr = Constants.r_tr /\ A = Constants.A

\* dsdt called twice on a state the derivative of which differs from it
C10_Witness ==
    /\ last.fn = "dsdt" /\ prev.fn = "dsdt"
    /\ s = <<Scaled(Half), Scaled(FNeg(Half)), FromInt(-1), Dec(25, 2)>>
    /\ last.ret # s
    /\ prev.ret = last.ret

\* C11: the system is autonomous: two calls of dsdt on the same state s at
\* two times t1 and t2 return the same derivative.
C11_Autonomous ==
    (/\ prev.fn = "dsdt" /\ last.fn = "dsdt"
     /\ prev.args[1] = last.args[1])
    => prev.ret = last.ret

\* dsdt called at two different times on a state within the halo, the
\* derivative finite
C11_Witness ==
    /\ prev.fn = "dsdt" /\ last.fn = "dsdt"
    /\ prev.args[1] = last.args[1]
    /\ prev.args[2] # last.args[2]
    /\ last.args[1] = <<Scaled(Half), Scaled(Half), Dec(25, 2), FromInt(-1)>>
    /\ \A k \in 1..4 : IsNum(last.ret[k])

\* The radius and the speed of a state [x, y, v_x, v_y]
Radius(sv) == Norm2(<<sv[1], sv[2]>>)

Speed(sv) == Norm2(<<sv[3], sv[4]>>)

ZeroVec(x) == IsZero(x[1]) /\ IsZero(x[2])

\* C13: density at r = 0, F_grav at r = 0 and F_dyn at r = 0 or v_abs = 0
\* divide by zero: density returns an infinity, every component of the forces
\* is an infinity or NaN, and dsdt called on such a state returns NaN
\* accelerations: nothing in the chain puts a finite value in their place.
C13_DivisionByZeroPropagates ==
    /\ (last.fn = "density" /\ IsZero(last.args[1])) => IsInf(last.ret)
    /\ (last.fn = "F_grav" /\ ZeroVec(last.args[1]))
          => IsNaN(last.ret[1]) /\ IsNaN(last.ret[2])
    /\ (last.fn = "F_dyn" /\ (ZeroVec(last.args[1]) \/ ZeroVec(last.args[2])))
          => ~IsNum(last.ret[1]) /\ ~IsNum(last.ret[2])
    /\ (last.fn = "dsdt" /\ (ZeroVec(SubSeq(last.args[1], 1, 2))
                             \/ ZeroVec(SubSeq(last.args[1], 3, 4))))
          => IsNaN(last.ret[3]) /\ IsNaN(last.ret[4])

\* dsdt called on a body at rest within the halo: the friction is 0/0, the
\* gravitational force finite
C13_Witness ==
    /\ last.fn = "dsdt"
    /\ last.args[1] = <<Scaled(Half), Scaled(FNeg(Half)), Zero(1), Zero(1)>>
    /\ IsNum(F_grav(SubSeq(s, 1, 2), SubSeq(s, 3, 4))[1])
    /\ IsNaN(last.ret[3]) /\ IsNaN(last.ret[4])
    /\ IsZero(last.ret[1]) /\ IsZero(last.ret[2])

\* C14: the driver cell calls odeint once: at no point have two calls been
\* made, and when odeint raises, the cell ends with that exception,
\* ode_result is not assigned and odeint is not called again.
C14_SingleSolverCall ==
    /\ calls <= 1
    /\ pc \in {"odeint", "plot", "done", "failed"} => calls = 1
    /\ pc = "failed"
         => /\ error \in SolverFailures
            /\ ode_result = <<>>
            /\ ~ENABLED DriverCell
    /\ pc # "failed" => error = "none"

\* odeint has raised in the run of the notebook's orbit
C14_Witness ==
    /\ pc = "failed" /\ error = "odepack" /\ calls = 1
    /\ e = Dec(999, 3) /\ a = FMul(Two, r_tr)
    /\ tvals # <<>>

\* f is within g/16 of g
Near(f, g) == Close(f, g, Precision - 4)

\* The derivative at the initial state is that of a circular orbit: the
\* velocity along x, the acceleration towards the centre, of size v^2/r
CircularStart(ds) ==
    /\ ds[1] = v_apo /\ IsZero(ds[2])
    /\ IsZero(ds[3])
    /\ Close(ds[4], FNeg(FDiv(Square(v_apo), r0)), 4)

\* The body moves on the circle of radius r0 at the speed v_apo, the
\* velocity at a right angle to the radius, and P is the time a revolution
\* takes, so that the body is back at its initial state at time P
CircularOrbit ==
    /\ Close(FMul(P, v_apo), FMul(FMul(Two, FPi), r0), 4)
    /\ i = 1 => CircularStart(dsdt(y, tvals[1]).ret)
    /\ Near(Radius(y), r0)
    /\ Near(Speed(y), v_apo)
    /\ FLe(FAbs(FAdd(FMul(y[1], y[3]), FMul(y[2], y[4]))),
           FMul(RelErr(Precision - 4), FMul(r0, v_apo)))

C16_CorrectionLimits ==
    /\ (last.fn = "dist_corr" /\ IsZero(last.args[2])) => IsZero(last.ret)
    /\ last.fn = "dist_corr" => FLe(last.ret, One)
    /\ (last.fn = "dist_corr" /\ FGe(last.args[2], FromInt(8)))
          => Close(last.ret, One, 1)
    /\ (/\ prev.fn = "dist_corr" /\ last.fn = "dist_corr"
        /\ FGe(prev.args[2], FromInt(8))
        /\ FLe(prev.args[2], last.args[2]))
          => FLe(FSub(One, last.ret), FSub(One, prev.ret))

\* dist_corr called at the speed 0 and then at the speed 1000, at two radii
C16_Witness ==
    /\ prev.fn = "dist_corr" /\ last.fn = "dist_corr"
    /\ IsZero(prev.args[2]) /\ last.args[2] = FromInt(1000)
    /\ prev.args[1] # last.args[1]
    /\ IsZero(prev.ret) /\ last.ret = One

\* C17 as stated: for a fixed a > 0, r0 = (1+e)*a is strictly increasing in
\* e: the apoapsis of each smaller eccentricity is below r0.
C17_ApoapsisStrictlyIncreasing ==
    pc # "setup"
    => \A e1 \in Eccentricities :
          FLt(e1, e) => FLt(Apoapsis(e1, a), r0)

\* Four times the gap between 1 and the next float above it (2^-50 for
\* float64)
Resolved == Num(1, MantLo, 4 - 2 * Precision)

\* C17: for a fixed a > 0, r0 = (1+e)*a does not decrease with e, and
\* increases strictly between eccentricities that differ by at least
\* Resolved.
C17_ApoapsisMonotone ==
    pc # "setup"
    => \A e1 \in Eccentricities :
          FLt(e1, e)
          => /\ FLe(Apoapsis(e1, a), r0)
             /\ FGe(FSub(e, e1), Resolved) => FLt(Apoapsis(e1, a), r0)

\* The set-up cell run with e = 0.999, the apoapsides of the smaller
\* eccentricities 0 and 0.5 below r0
C17_Witness ==
    /\ pc = "driver" /\ e = Dec(999, 3)
    /\ FLt(Apoapsis(Zero(1), a), Apoapsis(Half, a))
    /\ FLt(Apoapsis(Half, a), r0)

\* C18: the value returned by dist_corr(r, v_abs) varies with r at a fixed
\* v_abs, through Menc(r)/r: two calls at the same speed v_abs > 0 and two
\* different radii r > 0 return two different values.
C18_CorrectionVariesWithRadius ==
    (/\ prev.fn = "dist_corr" /\ last.fn = "dist_corr"
     /\ prev.args[2] = last.args[2] /\ FGt(last.args[2], Zero(1))
     /\ FGt(prev.args[1], Zero(1)) /\ FGt(last.args[1], Zero(1))
     /\ prev.args[1] # last.args[1])
    => prev.ret # last.ret

\* Number of panels of the midpoint rule
Panels == 16

\* The midpoint of panel k of [0, r]
Node(r, k) == FMul(r, FDiv(FromInt(2 * k - 1), FromInt(2 * Panels)))

\* density(s)*s^2
Shell(sv) == FMul(density(sv), Square(sv))

RECURSIVE MidpointSum(_, _, _)

\* Shell(Node(r, lo)) + ... + Shell(Node(r, hi)), summed by halves
MidpointSum(r, lo, hi) ==
    IF lo = hi
    THEN Shell(Node(r, lo))
    ELSE FAdd(MidpointSum(r, lo, (lo + hi) \div 2),
              MidpointSum(r, (lo + hi) \div 2 + 1, hi))

\* 4*pi * integral of density(s)*s^2 ds from 0 to r, by the midpoint rule
MassIntegral(r) ==
    FMul(FMul(FMul(Four, FPi), MidpointSum(r, 1, Panels)),
         FDiv(r, FromInt(Panels)))

\* C19: the normalisation A agrees with the enclosed mass: for 0 < r <= r_tr
\* the mass of the halo within r, 4*pi * integral of density(s)*s^2 ds, is
\* Menc(r) - M_PBH (to the accuracy of the quadrature, 1/64), and
\* A*(8*pi/3)*r_tr^3 = M_PBH (to rounding).
C19_NormalisationMatchesMenc ==
    /\ Close(FMul(FMul(A, FDiv(FMul(FromInt(8), FPi), FromInt(3))),
                  Cube(r_tr)),
             M_PBH, 6)
    /\ (/\ last.fn = "Menc"
        /\ FGt(last.args[1], Zero(1)) /\ FLe(last.args[1], r_tr))
          => Close(MassIntegral(last.args[1]), FSub(last.ret, M_PBH),
                   Precision - 6)

\* Menc called at r_tr/2 and, before it, at r_tr, where the halo weighs as
\* much as the black hole
C19_Witness ==
    /\ last.fn = "Menc" /\ last.args[1] = Scaled(Half)
    /\ prev.fn = "Menc" /\ prev.args[1] = r_tr
    /\ FGt(MassIntegral(last.args[1]), Zero(1))
    /\ FLt(MassIntegral(last.args[1]), MassIntegral(prev.args[1]))
    /\ Close(MassIntegral(prev.args[1]), M_PBH, Precision - 6)

\* C20: F_grav ignores its velocity argument: two calls at the same
\* position x # (0, 0), with any two velocities, return the same force.
C20_GravIgnoresVelocity ==
    (/\ prev.fn = "F_grav" /\ last.fn = "F_grav"
     /\ prev.args[1] = last.args[1] /\ NonZeroVec(last.args[1]))
    => prev.ret = last.ret

\* F_grav called beyond the halo with the velocity 0 and then with a
\* velocity off the axes, the force finite
C20_Witness ==
    /\ prev.fn = "F_grav" /\ last.fn = "F_grav"
    /\ last.args[1] = <<Scaled(FromInt(-2)), Scaled(One)>>
    /\ prev.args[1] = last.args[1]
    /\ ZeroVec(prev.args[2])
    /\ last.args[2] = <<FromInt(-1), Dec(25, 2)>>
    /\ IsNum(last.ret[1]) /\ IsNum(last.ret[2])

\* C21: Menc(0) is M_PBH, the black hole alone, and for every r >= 0 the
\* enclosed mass lies between M_PBH and 2*M_PBH.
C21_MencBounds ==
    /\ (last.fn = "Menc" /\ IsZero(last.args[1])) => last.ret = M_PBH
    /\ (last.fn = "Menc" /\ FGe(last.args[1], Zero(1)))
          => /\ FLe(M_PBH, last.ret)
             /\ FLe(last.ret, FMul(Two, M_PBH))

\* Menc called at 0 and then just below r_tr, where it is between the bounds
C21_Witness ==
    /\ prev.fn = "Menc" /\ IsZero(prev.args[1]) /\ prev.ret = M_PBH
    /\ last.fn = "Menc" /\ last.args[1] = NextDown(r_tr)
    /\ FLt(M_PBH, last.ret)

\* One component of the Kepler acceleration -2*G_N*M_PBH*x/r^3
Kepler(xi, r) ==
    FDiv(FMul(FMul(FMul(FNeg(Two), G_N), M_PBH), xi), Cube(r))

\* C22: beyond the truncation radius the friction vanishes: for r > r_tr and
\* v # (0, 0), F_dyn(x, v) is the zero vector, and the acceleration dsdt
\* returns is F_grav(x, v)/M_PBH alone, the Kepler acceleration
\* -2*G_N*M_PBH*x/r^3 (to rounding).
C22_NoFrictionBeyondHalo ==
    /\ (/\ last.fn = "F_dyn"
        /\ FGt(Norm2(last.args[1]), r_tr) /\ NonZeroVec(last.args[2]))
          => ZeroVec(last.ret)
    /\ (/\ last.fn = "dsdt"
        /\ FGt(Radius(last.args[1]), r_tr)
        /\ NonZeroVec(SubSeq(last.args[1], 3, 4)))
          => LET x  == SubSeq(last.args[1], 1, 2)
                 fg == F_grav(x, SubSeq(last.args[1], 3, 4))
             IN \A j \in 1..2 :
                   /\ FEq(last.ret[2 + j], FDiv(fg[j], M_PBH))
                   /\ Close(last.ret[2 + j], Kepler(x[j], Norm2(x)), 6)

\* dsdt called on a moving body beyond the halo, off the axes
C22_Witness ==
    /\ last.fn = "dsdt"
    /\ last.args[1] = <<Scaled(One), Scaled(FromInt(-2)), Dec(25, 2), FromInt(-1)>>
    /\ ZeroVec(F_dyn(SubSeq(s, 1, 2), SubSeq(s, 3, 4)))
    /\ last.ret[3].sgn = -1 /\ last.ret[4].sgn = 1
    /\ IsNum(last.ret[3]) /\ ~IsZero(last.ret[3])

\* C23: Menc and density classify the boundary radius the same way, by the
\* strict test r > r_tr: at r = r_tr both take the inner branch, so that
\* Menc(r_tr) = 2*M_PBH and density(r_tr) = A, which is not zero; just above
\* r_tr density is 0 while Menc is still 2*M_PBH: density jumps, Menc does not.
C23_BoundaryClassification ==
    /\ (last.fn = "Menc" /\ last.args[1] = r_tr)
          => /\ ~FGt(last.args[1], r_tr)
             /\ last.ret = MencInner(r_tr)
             /\ last.ret = FMul(Two, M_PBH)
    /\ (last.fn = "density" /\ last.args[1] = r_tr)
          => /\ ~FGt(last.args[1], r_tr)
             /\ last.ret = A
             /\ FGt(last.ret, Zero(1))
    /\ (last.fn = "Menc" /\ last.args[1] = NextUp(r_tr))
          => last.ret = FMul(Two, M_PBH)
    /\ (last.fn = "density" /\ last.args[1] = NextUp(r_tr))
          => IsZero(last.ret)
    /\ (last.fn = "density" /\ last.args[1] = NextDown(r_tr))
          => Close(last.ret, A, 3)

\* density evaluated at r_tr and then at the next radius above it
C23_Witness ==
    /\ prev.fn = "density" /\ prev.args[1] = r_tr /\ prev.ret = A
    /\ last.fn = "density" /\ last.args[1] = NextUp(r_tr) /\ IsZero(last.ret)
    /\ Menc(prev.args[1]) = Menc(last.args[1])

\* C24: for every e in [0, 1) and a > 0 the initial state is away from both
\* singularities: r0 = (1+e)*a > 0, the radicand 2/r0 - 1/a is > 0, v_apo is
\* a speed > 0, and the first evaluation of dsdt, on s_init, divides neither
\* by r = 0 nor by v_abs = 0: what it returns is finite.
C24_AwayFromSingularities ==
    (/\ pc # "setup"
     /\ FGe(e, Zero(1)) /\ FLt(e, One) /\ FGt(a, Zero(1)))
    => /\ FGt(r0, Zero(1))
       /\ FGt(FSub(FDiv(Two, r0), FDiv(One, a)), Zero(1))
       /\ FGt(v_apo, Zero(1))
       /\ FGt(Radius(s_init), Zero(1))
       /\ FGt(Speed(s_init), Zero(1))
       /\ \A k \in 1..4 : IsNum(dsdt(s_init, Zero(1)).ret[k])

\* The dot product f . v
Dot(f, v) == FAdd(FMul(f[1], v[1]), FMul(f[2], v[2]))

\* C25: friction never does positive work: for every position x # (0, 0) and
\* every velocity v # (0, 0) the dot product F_dyn(x, v) . v is <= 0, the
\* density and the correction factor being >= 0.
C25_NoPositiveWork ==
    (/\ last.fn = "F_dyn"
     /\ NonZeroVec(last.args[1]) /\ NonZeroVec(last.args[2]))
    => /\ FGe(density(Norm2(last.args[1])), Zero(1))
       /\ FGe(dist_corr(Norm2(last.args[1]), Norm2(last.args[2])), Zero(1))
       /\ FLe(Dot(last.ret, last.args[2]), Zero(1))

=============================================================================
